---- MODULE Spec2Model ----
(***************************************************************************)
(* Alpha 2.0 liquidity connectors of bn-Grid:                              *)
(*   BinanceExchange  (src/src/core/exchanges/binance.py)                  *)
(*   BinanceAdapter   (src/src/core/exchange/binance_adapter.py)           *)
(* Both run on one asyncio event loop: the code between two awaits is one  *)
(* atomic step, and every `await self.exchange.request(...)` suspends the  *)
(* calling task until the gateway answers or raises.                       *)
(***************************************************************************)
EXTENDS Integers, Sequences, FiniteSets, TLC

\* ------------------------------------------------------------------ bounds
MaxTasks == 2          \* concurrently scheduled caller tasks
StartTime == 60        \* time.time() of the first step (epoch seconds are far above every TTL)
MaxTime == 100         \* the clock stops advancing here
TickStep == 20         \* seconds the clock advances in one Tick
MaxCatalogLen == 3     \* instruments in a catalog of SpecResolve

\* ------------------------------------------------------- program constants
CatalogTTL == 30       \* `now - cache[0] < 30`
cache_ttl == 30        \* self.cache_ttl, the balance TTL read by fetch_funding_balance

Tasks == 1..MaxTasks
Exchange == "BinanceExchange"
Adapter == "BinanceAdapter"
Classes == {Exchange, Adapter}
SeqTasks == {1}        \* the one caller of SpecSeq

\* ---------------------------------------------------------- gateway data
\* An instrument of the get-exchange-info response.  status "" stands for
\* an absent key (dict.get returns None, which equals no status string).
Instrument(sym, base, quote, st) ==
    [symbol |-> sym, baseAsset |-> base, quoteAsset |-> quote, status |-> st]

NoSymbol == Instrument("", "", "", "")

\* the instrument with its 'quantityPrecision' and 'pricePrecision' keys; an
\* instrument built by Instrument alone omits both keys
WithPrecision(symbol, quantityPrecision, pricePrecision) ==
    [k \in DOMAIN symbol \cup {"quantityPrecision", "pricePrecision"} |->
        IF k = "quantityPrecision" THEN quantityPrecision
        ELSE IF k = "pricePrecision" THEN pricePrecision
        ELSE symbol[k]]

A1 == WithPrecision(Instrument("ALPHA_1USDT", "ALPHA_1", "USDT", "TRADING"), 4, 2)
A2 == Instrument("ALPHA_2USDT", "ALPHA_2", "USDT", "TRADING")
A3 == Instrument("ALPHA_3USDT", "ALPHA_3", "USDT", "BREAK")
A4 == Instrument("ALPHA_4BTC", "ALPHA_4", "BTC", "TRADING")
A5 == Instrument("ALPHA_5BTC", "ALPHA_5", "BTC", "")
A6 == Instrument("ALPHA_6BTC", "ALPHA_6", "BTC", "TRADING")

\* get-exchange-info responses the gateway may give in Spec: {'symbols': [...]}
ExchangeInfos ==
    { [symbols |-> <<A3, A1, A2>>],
      [symbols |-> <<A4>>] }

\* quote assets a caller may pass to a transfer
TransferAssets == {"USDT"}

\* A float is modelled by the exact fraction num/den it stands for, den > 0.
Rat(n, d) == [num |-> n, den |-> d]

\* amounts a caller may pass to a transfer in Spec
TransferAmounts == {Rat(100, 1)}

\* One item of the get-alpha-asset response.  "" is an absent or empty
\* code; hasAmount = FALSE is an absent 'amount' key.
Item(cex, alpha, has, amt) ==
    [cexAssetCode |-> cex, alphaId |-> alpha, hasAmount |-> has, amount |-> amt]

BalanceResponses ==
    { << Item("USDT", "", TRUE, 7), Item("", "ALPHA_1", TRUE, 2) >>,
      << Item("USDT", "", TRUE, 5), Item("USDT", "", TRUE, -1),
         Item("", "ALPHA_1", TRUE, 0), Item("", "", TRUE, 3),
         Item("BTC", "", FALSE, 0) >> }

\* ticker-price responses: {'price': p} or {} (hasPrice = FALSE)
TickerResponses ==
    { [hasPrice |-> TRUE, price |-> 2],
      [hasPrice |-> TRUE, price |-> 0],
      [hasPrice |-> TRUE, price |-> -1],
      [hasPrice |-> FALSE, price |-> 0] }

EmptyMap == [x \in {} |-> 0]

\* ------------------------------------------------------- pure functions
\* balances[asset_code] = amount
DictPut(d, k, v) ==
    [x \in (DOMAIN d) \cup {k} |-> IF x = k THEN v ELSE d[x]]

\* item.get('cexAssetCode') or item.get('alphaId')
AssetCode(item) ==
    IF item.cexAssetCode # "" THEN item.cexAssetCode ELSE item.alphaId

\* float(item.get('amount', 0) or 0)
ItemAmount(item) ==
    IF item.hasAmount THEN item.amount ELSE 0

KeepsAmount_ZeroIncluded(amount) ==
    amount >= 0

\* `if amount > 0:`
KeepsAmount(amount) ==
    amount > 0

\* the `for item in result:` loop of fetch_funding_balance, from item i on
RECURSIVE ParseBalancesFrom(_, _, _)
ParseBalancesFrom(result, i, balances) ==
    IF i > Len(result) THEN balances
    ELSE LET item == result[i]
             code == AssetCode(item)
         IN  IF code = "" THEN ParseBalancesFrom(result, i + 1, balances)
             ELSE IF KeepsAmount(ItemAmount(item))
                  THEN ParseBalancesFrom(result, i + 1,
                                         DictPut(balances, code, ItemAmount(item)))
                  ELSE ParseBalancesFrom(result, i + 1, balances)

ParseBalances(result) ==
    ParseBalancesFrom(result, 1, EmptyMap)

SymbolMatches_AnyStatus(symbol, quote_asset) ==
    symbol.quoteAsset = quote_asset

\* symbol.get('quoteAsset') == quote_asset and symbol.get('status') == 'TRADING'
SymbolMatches(symbol, quote_asset) ==
    symbol.quoteAsset = quote_asset /\ symbol.status = "TRADING"

\* the `for symbol in exchange_info.get('symbols', []):` scan of
\* _get_alpha_symbol_info, from index i on; NoSymbol stands for the
\* ValueError raised after the loop
RECURSIVE ScanSymbols(_, _, _)
ScanSymbols(symbols, i, quote_asset) ==
    IF i > Len(symbols) THEN NoSymbol
    ELSE IF SymbolMatches(symbols[i], quote_asset) THEN symbols[i]
         ELSE ScanSymbols(symbols, i + 1, quote_asset)

RECURSIVE ScanSymbolsLast(_, _, _)
ScanSymbolsLast(symbols, i, quote_asset) ==
    IF i < 1 THEN NoSymbol
    ELSE IF SymbolMatches(symbols[i], quote_asset) THEN symbols[i]
         ELSE ScanSymbolsLast(symbols, i - 1, quote_asset)

ResolveSymbol_LastMatch(symbols, quote_asset) ==
    ScanSymbolsLast(symbols, Len(symbols), quote_asset)

\* BinanceExchange._get_alpha_symbol_info, lines 227-231
ResolveSymbol(symbols, quote_asset) ==
    ScanSymbols(symbols, 1, quote_asset)

\* BinanceAdapter._build_alpha_order: next((s for s in symbols if ...), None)
\* is the head of the filtered stream, or None (NoSymbol) when it is empty
NextMatching(symbols, quote_asset) ==
    LET matching == SelectSeq(symbols, LAMBDA s : SymbolMatches(s, quote_asset))
    IN  IF matching = <<>> THEN NoSymbol ELSE Head(matching)

\* `cache and now - cache[0] < 30`; None is modelled as the empty tuple
CatalogFresh_StaleAccepted(cache, now) ==
    cache # <<>>

CatalogFresh(cache, now) ==
    cache # <<>> /\ now - cache[1] < CatalogTTL

BalanceFresh_NeverExpires(cache, now) ==
    TRUE

\* `now - self.funding_balance_cache['timestamp'] < self.cache_ttl`
BalanceFresh(cache, now) ==
    now - cache.timestamp < cache_ttl

\* float(ticker.get('price', 0) or 0)
TickerPrice(ticker) ==
    IF ticker.hasPrice THEN ticker.price ELSE 0

PriceRejected_Never(price_value) ==
    FALSE

\* `if price_value <= 0: raise ValueError`
PriceRejected(price_value) ==
    price_value <= 0

ClearedBalanceCache == [timestamp |-> 0, data |-> EmptyMap]

\* ---- order building
\* quantity_value = amount / price_value, for a divisor other than zero
Divide(a, b) ==
    IF b.num < 0 THEN Rat(-(a.num * b.den), a.den * (-b.num))
                 ELSE Rat(a.num * b.den, a.den * b.num)

\* symbol_info.get(key, 8)
GetPrecision(symbol_info, key) ==
    IF key \in DOMAIN symbol_info THEN symbol_info[key] ELSE 8

DigitChars == <<"0", "1", "2", "3", "4", "5", "6", "7", "8", "9">>

\* the decimal digits of a natural number, most significant first
RECURSIVE NatDigits(_)
NatDigits(n) ==
    IF n < 10 THEN <<n>> ELSE Append(NatDigits(n \div 10), n % 10)

\* the first `precision` decimal digits of r/d after the point, 0 <= r < d
RECURSIVE FracDigits(_, _, _)
FracDigits(r, d, precision) ==
    IF precision = 0 THEN <<>>
    ELSE <<(r * 10) \div d>> \o FracDigits((r * 10) % d, d, precision - 1)

\* what is left of r/d below its first `precision` digits, as a numerator over d
RECURSIVE FracRemainder(_, _, _)
FracRemainder(r, d, precision) ==
    IF precision = 0 THEN r
    ELSE FracRemainder((r * 10) % d, d, precision - 1)

\* the digit string plus one unit in its last place
RECURSIVE Increment(_)
Increment(digits) ==
    IF digits = <<>> THEN <<1>>
    ELSE LET n == Len(digits)
         IN  IF digits[n] = 9
             THEN Append(Increment(SubSeq(digits, 1, n - 1)), 0)
             ELSE [digits EXCEPT ![n] = @ + 1]

\* the digits of |value| correctly rounded at `precision` places (ties to
\* the even digit), integer digits followed by the fraction digits
RoundedDigits(value, precision) ==
    LET a == IF value.num < 0 THEN -value.num ELSE value.num
        d == value.den
        digits == NatDigits(a \div d) \o FracDigits(a % d, d, precision)
        rest == FracRemainder(a % d, d, precision)
        up == \/ 2 * rest > d
              \/ 2 * rest = d /\ digits[Len(digits)] % 2 = 1
    IN  IF up THEN Increment(digits) ELSE digits

Chars(digits) == [i \in 1..Len(digits) |-> DigitChars[digits[i] + 1]]

\* repr-like rendering: the fraction's trailing zeros are dropped
RECURSIVE DropTrailingZeros(_)
DropTrailingZeros(digits) ==
    IF digits # <<>> /\ digits[Len(digits)] = 0
    THEN DropTrailingZeros(SubSeq(digits, 1, Len(digits) - 1))
    ELSE digits

FixedPoint_Shortest(value, precision) ==
    LET digits == RoundedDigits(value, precision)
        k == Len(digits) - precision
        frac == DropTrailingZeros(SubSeq(digits, k + 1, Len(digits)))
    IN  (IF value.num < 0 THEN <<"-">> ELSE <<>>)
        \o Chars(SubSeq(digits, 1, k))
        \o (IF frac # <<>> THEN <<".">> \o Chars(frac) ELSE <<>>)

\* format(value, f'.{precision}f'): the string, as its sequence of characters
FixedPoint(value, precision) ==
    LET digits == RoundedDigits(value, precision)
        k == Len(digits) - precision
    IN  (IF value.num < 0 THEN <<"-">> ELSE <<>>)
        \o Chars(SubSeq(digits, 1, k))
        \o (IF precision > 0
            THEN <<".">> \o Chars(SubSeq(digits, k + 1, Len(digits)))
            ELSE <<>>)

\* BinanceExchange._format_alpha_value
format_alpha_value(value, precision) == FixedPoint(value, precision)

\* BinanceAdapter._format_with_precision
format_with_precision(value, precision) == FixedPoint(value, precision)

\* the parameters of an order/place request; 'timestamp' (the adjusted
\* clock in milliseconds) is left out
NoParams ==
    [baseAsset |-> "", quoteAsset |-> "", side |-> "",
     quantity |-> <<>>, price |-> <<>>, recvWindow |-> 0]

\* BinanceExchange.transfer_to_savings, lines 131-147
savings_params(asset, amount, symbol_info, price_value) ==
    [baseAsset |-> symbol_info.baseAsset,
     quoteAsset |-> asset,
     side |-> "BUY",
     quantity |-> format_alpha_value(Divide(amount, price_value),
                                     GetPrecision(symbol_info, "quantityPrecision")),
     price |-> format_alpha_value(price_value,
                                  GetPrecision(symbol_info, "pricePrecision")),
     recvWindow |-> 5000]

spot_params_QuotePrecision(asset, amount, symbol_info, price_value) ==
    [baseAsset |-> symbol_info.baseAsset,
     quoteAsset |-> asset,
     side |-> "SELL",
     quantity |-> format_alpha_value(Divide(amount, price_value),
                                     GetPrecision(symbol_info, "pricePrecision")),
     price |-> format_alpha_value(price_value,
                                  GetPrecision(symbol_info, "pricePrecision")),
     recvWindow |-> 5000]

\* BinanceExchange.transfer_to_spot, lines 175-191
spot_params(asset, amount, symbol_info, price_value) ==
    [baseAsset |-> symbol_info.baseAsset,
     quoteAsset |-> asset,
     side |-> "SELL",
     quantity |-> format_alpha_value(Divide(amount, price_value),
                                     GetPrecision(symbol_info, "quantityPrecision")),
     price |-> format_alpha_value(price_value,
                                  GetPrecision(symbol_info, "pricePrecision")),
     recvWindow |-> 5000]

\* BinanceAdapter._build_alpha_order from the price on (lines 269-277):
\* <<base_asset, quote_asset, price, quantity>>
build_alpha_order(quote_asset, amount, symbol_info, price_value) ==
    << symbol_info.baseAsset,
       quote_asset,
       format_with_precision(price_value, GetPrecision(symbol_info, "pricePrecision")),
       format_with_precision(Divide(amount, price_value),
                             GetPrecision(symbol_info, "quantityPrecision")) >>

\* BinanceAdapter.transfer_to_funding, lines 173-185
funding_params(asset, amount, symbol_info, price_value) ==
    LET order == build_alpha_order(asset, amount, symbol_info, price_value)
    IN  [baseAsset |-> order[1], quoteAsset |-> order[2], side |-> "BUY",
         quantity |-> order[4], price |-> order[3], recvWindow |-> 5000]

\* BinanceAdapter.transfer_to_spot, lines 198-210
adapter_spot_params(asset, amount, symbol_info, price_value) ==
    LET order == build_alpha_order(asset, amount, symbol_info, price_value)
    IN  [baseAsset |-> order[1], quoteAsset |-> order[2], side |-> "SELL",
         quantity |-> order[4], price |-> order[3], recvWindow |-> 5000]

\* ------------------------------------------------------------------ state
VARIABLES
    clock,                  \* time.time(), in seconds
    impl,                   \* the class of the connector instance the callers use
    enable_savings,         \* self.config.enable_savings
    funding_balance_cache,  \* BinanceExchange.funding_balance_cache
    balance_cache,          \* BinanceExchange.balance_cache (written by _clear_balance_cache)
    alpha_exchange_cache,   \* self._alpha_exchange_cache: <<>> (None) or <<now, info>>
    replaced,               \* history: what the last replacement of each cache stored
                            \*   (bal, cat) and when the request that produced the
                            \*   stored catalog was issued (catIssued)
    pc,                     \* the await each task is suspended at, or "idle"
    loc,                    \* each task's call: arguments, live locals, requests issued,
                            \*   and its outcome once it has returned
    xferReturned,           \* history: a BinanceExchange transfer returned its result and
                            \*   no fetch_funding_balance has started since
    lk,                     \* history (SpecSeq): the last two catalog lookups, each
                            \*   <<>> or <<start time, requests issued, succeeded>>
    okBal,                  \* history (SpecSeq): <<V>>, V the balances of the last
                            \*   fetch_funding_balance whose request succeeded
    r_symbols, r_quote,     \* SpecResolve: the catalog and quote asset resolved
    r_done, r_exchange, r_adapter,  \* SpecResolve: the two resolutions' results
    o_in,                   \* SpecOrder: asset, amount, instrument and price of an order
    o_done, o_out           \* SpecOrder: the parameters each transfer builds from o_in

connVars == <<impl, enable_savings, funding_balance_cache, balance_cache,
              alpha_exchange_cache, replaced>>
seqVars == <<lk, okBal>>
resolveVars == <<r_symbols, r_quote, r_done, r_exchange, r_adapter>>
orderVars == <<o_in, o_done, o_out>>
pureVars == <<resolveVars, orderVars>>
vars == <<clock, connVars, pc, loc, xferReturned, seqVars, pureVars>>

TransferOps == {"transfer_to_savings", "transfer_to_funding", "transfer_to_spot"}

\* the locals of a call that has not started
NoCall ==
    [ op |-> "", asset |-> "", side |-> "",
      amount |-> Rat(0, 1), \* the amount argument of a transfer
      params |-> NoParams,  \* the parameters of the order/place request, once built
      now |-> 0,            \* `now = time.time()` while a request of the frame that holds
                            \*   it is awaited (and of the lookup whose request raised)
      issuedAt |-> 0,       \* history: when the catalog request of that frame was issued
      sym |-> NoSymbol,     \* symbol_info, once resolved
      price |-> 0,          \* price_value, once fetched
      nBal |-> 0, nCat |-> 0, nTicker |-> 0, nOrder |-> 0,  \* requests issued by the call
      ret |-> "none",       \* "none" while running; "balances", "info", "result",
                            \*   "True", "False" (the value returned) or "raise"
      err |-> "",           \* the exception raised inside the call, if any
      bal |-> EmptyMap ]    \* the balance map returned

NewCall(op, asset, side) ==
    [NoCall EXCEPT !.op = op, !.asset = asset, !.side = side]

SideOf(op) == IF op = "transfer_to_spot" THEN "SELL" ELSE "BUY"

\* the exception leaves the call
Raise(l, e) == [l EXCEPT !.ret = "raise", !.err = e]

\* the adapter's `except Exception as exc: ... return False`
ReturnFalse(l, e) == [l EXCEPT !.ret = "False", !.err = e]

\* the inputs of one order: the transfer's arguments, the instrument
\* resolved for it and the price fetched for it
OrderInput(asset, amount, symbol_info, price_value) ==
    [asset |-> asset, amount |-> amount, symbol_info |-> symbol_info,
     price_value |-> price_value]

NoOrders ==
    [savings |-> NoParams, spot |-> NoParams,
     funding |-> NoParams, adapter_spot |-> NoParams]

InitPure ==
    /\ r_symbols = <<>>
    /\ r_quote = ""
    /\ r_done = FALSE
    /\ r_exchange = NoSymbol
    /\ r_adapter = NoSymbol
    /\ o_in = OrderInput("", Rat(0, 1), NoSymbol, Rat(1, 1))
    /\ o_done = FALSE
    /\ o_out = NoOrders

InitConn ==
    /\ clock = StartTime
    /\ funding_balance_cache = [timestamp |-> 0, data |-> EmptyMap]
    /\ balance_cache = [timestamp |-> 0, data |-> "None"]
    /\ alpha_exchange_cache = <<>>
    /\ replaced = [bal |-> [timestamp |-> 0, data |-> EmptyMap], cat |-> <<>>,
                   catIssued |-> 0]
    /\ pc = [t \in Tasks |-> "idle"]
    /\ loc = [t \in Tasks |-> NoCall]
    /\ xferReturned = FALSE
    /\ lk = [prev |-> <<>>, last |-> <<>>]
    /\ okBal = <<>>

Init ==
    /\ InitConn
    /\ impl \in Classes
    /\ enable_savings \in BOOLEAN
    /\ InitPure

\* time passes (between steps, and while requests are in flight)
Tick ==
    /\ clock + TickStep <= MaxTime
    /\ clock' = clock + TickStep
    /\ UNCHANGED <<connVars, pc, loc, xferReturned, pureVars>>

\* ---------------------------------------------------- calls and returns
\* The callers whose outcomes are kept once their call has returned.  The
\* callers run the same code, so what one of them can observe each can; the
\* others' frames are simply dropped when their call returns.
Observed == {1}

\* task t goes on to nxt = [pc |-> the await it suspends at or "idle" when
\* the call is over, l |-> its locals]
Goes(t, nxt) ==
    /\ pc' = [pc EXCEPT ![t] = nxt.pc]
    /\ loc' = [loc EXCEPT ![t] =
                 IF nxt.pc = "idle" /\ t \notin Observed THEN NoCall ELSE nxt.l]

Returns(l) == [pc |-> "idle", l |-> l]

\* ------------------------------------------------- BinanceExchange
\* fetch_funding_balance up to its first await (lines 88-102)
X_BalanceStart(l, now) ==
    IF ~enable_savings
    THEN Returns([l EXCEPT !.ret = "balances"])
    ELSE IF BalanceFresh(funding_balance_cache, now)
    THEN Returns([l EXCEPT !.ret = "balances", !.bal = funding_balance_cache.data])
    ELSE [pc |-> "balance_wait", l |-> [l EXCEPT !.now = now, !.nBal = 1]]

X_fetch_funding_balance_StampsFirst(t) ==
    /\ impl = Exchange
    /\ pc[t] = "idle"
    /\ LET nxt == X_BalanceStart(NewCall("fetch_funding_balance", "", ""), clock)
       IN  /\ Goes(t, nxt)
           /\ funding_balance_cache' =
                 IF nxt.pc = "balance_wait"
                 THEN [funding_balance_cache EXCEPT !.timestamp = clock]
                 ELSE funding_balance_cache
    /\ xferReturned' = FALSE
    /\ UNCHANGED <<clock, impl, enable_savings, balance_cache, alpha_exchange_cache,
                   replaced, pureVars>>

X_fetch_funding_balance(t) ==
    /\ impl = Exchange
    /\ pc[t] = "idle"
    /\ Goes(t, X_BalanceStart(NewCall("fetch_funding_balance", "", ""), clock))
    /\ xferReturned' = FALSE
    /\ UNCHANGED <<clock, connVars, pureVars>>

\* the get-alpha-asset request answers (lines 104-115)
X_fetch_funding_balance_ok(t) ==
    /\ impl = Exchange
    /\ pc[t] = "balance_wait"
    /\ \E result \in BalanceResponses :
         LET balances == ParseBalances(result)
         IN  /\ funding_balance_cache' = [timestamp |-> loc[t].now, data |-> balances]
             /\ replaced' = [replaced EXCEPT
                               !.bal = [timestamp |-> loc[t].now, data |-> balances]]
             /\ Goes(t, Returns([loc[t] EXCEPT !.ret = "balances",
                                               !.bal = balances, !.now = 0]))
    /\ UNCHANGED <<clock, impl, enable_savings, balance_cache, alpha_exchange_cache,
                   xferReturned, pureVars>>

\* the get-alpha-asset request raises (lines 116-118)
X_fetch_funding_balance_fail(t) ==
    /\ impl = Exchange
    /\ pc[t] = "balance_wait"
    /\ Goes(t, Returns([loc[t] EXCEPT !.ret = "balances",
                                      !.err = "request:get-alpha-asset",
                                      !.bal = funding_balance_cache.data,
                                      !.now = 0]))
    /\ UNCHANGED <<clock, connVars, xferReturned, pureVars>>

\* _get_alpha_symbol_info once exchange_info is known (lines 227-231), and
\* its caller's next await, _get_alpha_ticker_price (lines 127, 233-241)
X_AfterInfo(l, info) ==
    LET sym == ResolveSymbol(info.symbols, l.asset)
    IN  IF sym = NoSymbol
        THEN Returns(Raise([l EXCEPT !.now = 0, !.issuedAt = 0], "ValueError:symbol"))
        ELSE [pc |-> "ticker_wait",
              l |-> [l EXCEPT !.sym = sym, !.nTicker = 1, !.now = 0, !.issuedAt = 0]]

\* _get_alpha_symbol_info up to its await (lines 213-224)
X_LookupStart(l, now) ==
    IF CatalogFresh(alpha_exchange_cache, now)
    THEN X_AfterInfo(l, alpha_exchange_cache[2])
    ELSE [pc |-> "catalog_wait",
          l |-> [l EXCEPT !.now = now, !.issuedAt = clock, !.nCat = 1]]

\* transfer_to_savings / transfer_to_spot up to the first await
X_transfer_begin(t, op) ==
    /\ impl = Exchange
    /\ pc[t] = "idle"
    /\ \E asset \in TransferAssets, amount \in TransferAmounts :
         LET l0 == [NewCall(op, asset, SideOf(op)) EXCEPT !.amount = amount]
         IN  Goes(t, IF ~enable_savings
                     THEN Returns(Raise(l0, "RuntimeError"))
                     ELSE X_LookupStart(l0, clock))
    /\ UNCHANGED <<clock, connVars, xferReturned, pureVars>>

\* lines 120-127
X_transfer_to_savings(t) == X_transfer_begin(t, "transfer_to_savings")

\* lines 164-171
X_transfer_to_spot(t) == X_transfer_begin(t, "transfer_to_spot")

X_catalog_ok_StampsArrival(t) ==
    /\ impl = Exchange
    /\ pc[t] = "catalog_wait"
    /\ \E info \in ExchangeInfos :
         /\ alpha_exchange_cache' = <<clock, info>>
         /\ replaced' = [replaced EXCEPT !.cat = <<clock, info>>,
                                         !.catIssued = loc[t].issuedAt]
         /\ Goes(t, X_AfterInfo(loc[t], info))
    /\ UNCHANGED <<clock, impl, enable_savings, funding_balance_cache, balance_cache,
                   xferReturned, pureVars>>

\* the get-exchange-info request answers (lines 222-231)
X_catalog_ok(t) ==
    /\ impl = Exchange
    /\ pc[t] = "catalog_wait"
    /\ \E info \in ExchangeInfos :
         /\ alpha_exchange_cache' = <<loc[t].now, info>>
         /\ replaced' = [replaced EXCEPT !.cat = <<loc[t].now, info>>,
                                         !.catIssued = loc[t].issuedAt]
         /\ Goes(t, X_AfterInfo(loc[t], info))
    /\ UNCHANGED <<clock, impl, enable_savings, funding_balance_cache, balance_cache,
                   xferReturned, pureVars>>

X_CatalogFailed_UseStale(l, cache) ==
    IF cache # <<>> THEN X_AfterInfo(l, cache[2])
    ELSE Returns(Raise(l, "request:get-exchange-info"))

\* the get-exchange-info request raises: nothing catches it before the
\* transfer's `except Exception: ... raise` (lines 222-224, 160-162)
X_CatalogFailed(l, cache) ==
    Returns(Raise(l, "request:get-exchange-info"))

X_catalog_fail(t) ==
    /\ impl = Exchange
    /\ pc[t] = "catalog_wait"
    /\ Goes(t, X_CatalogFailed(loc[t], alpha_exchange_cache))
    /\ UNCHANGED <<clock, connVars, xferReturned, pureVars>>

\* lines 127-154 (171-198): the price arrives, the order is built and placed
X_AfterPrice(l, price_value) ==
    IF PriceRejected(price_value)
    THEN Returns(Raise([l EXCEPT !.price = price_value], "ValueError:price"))
    ELSE IF price_value = 0    \* `amount / price_value` raises on a zero divisor
    THEN Returns(Raise([l EXCEPT !.price = price_value], "ZeroDivisionError"))
    ELSE LET params == IF l.op = "transfer_to_savings"
                       THEN savings_params(l.asset, l.amount, l.sym, Rat(price_value, 1))
                       ELSE spot_params(l.asset, l.amount, l.sym, Rat(price_value, 1))
         IN  [pc |-> "order_wait",
              l |-> [l EXCEPT !.price = price_value, !.params = params, !.nOrder = 1]]

X_ticker_ok_ClearsFirst(t) ==
    /\ impl = Exchange
    /\ pc[t] = "ticker_wait"
    /\ \E ticker \in TickerResponses :
         Goes(t, X_AfterPrice(loc[t], TickerPrice(ticker)))
    /\ balance_cache' = [timestamp |-> 0, data |-> "None"]
    /\ funding_balance_cache' = ClearedBalanceCache
    /\ replaced' = [replaced EXCEPT !.bal = ClearedBalanceCache]
    /\ UNCHANGED <<clock, impl, enable_savings, alpha_exchange_cache, xferReturned,
                   pureVars>>

X_ticker_ok(t) ==
    /\ impl = Exchange
    /\ pc[t] = "ticker_wait"
    /\ \E ticker \in TickerResponses :
         Goes(t, X_AfterPrice(loc[t], TickerPrice(ticker)))
    /\ UNCHANGED <<clock, connVars, xferReturned, pureVars>>

\* the ticker-price request raises (lines 239-241, 160-162)
X_ticker_fail(t) ==
    /\ impl = Exchange
    /\ pc[t] = "ticker_wait"
    /\ Goes(t, Returns(Raise(loc[t], "request:ticker-price")))
    /\ UNCHANGED <<clock, connVars, xferReturned, pureVars>>

\* _clear_balance_cache (lines 248-251)
clear_balance_cache ==
    /\ balance_cache' = [timestamp |-> 0, data |-> "None"]
    /\ funding_balance_cache' = [timestamp |-> 0, data |-> EmptyMap]
    /\ replaced' = [replaced EXCEPT !.bal = [timestamp |-> 0, data |-> EmptyMap]]

\* the order/place request answers (lines 152-159, 196-203)
X_order_ok(t) ==
    /\ impl = Exchange
    /\ pc[t] = "order_wait"
    /\ clear_balance_cache
    /\ Goes(t, Returns([loc[t] EXCEPT !.ret = "result"]))
    /\ xferReturned' = TRUE
    /\ UNCHANGED <<clock, impl, enable_savings, alpha_exchange_cache, pureVars>>

X_OrderFailed_Retry(l) ==
    [pc |-> "order_wait", l |-> [l EXCEPT !.nOrder = @ + 1]]

\* the order/place request raises (lines 160-162, 204-206)
X_OrderFailed(l) ==
    Returns(Raise(l, "request:order/place"))

X_order_fail_Clears(t) ==
    /\ impl = Exchange
    /\ pc[t] = "order_wait"
    /\ clear_balance_cache
    /\ Goes(t, X_OrderFailed(loc[t]))
    /\ UNCHANGED <<clock, impl, enable_savings, alpha_exchange_cache, xferReturned,
                   pureVars>>

X_order_fail(t) ==
    /\ impl = Exchange
    /\ pc[t] = "order_wait"
    /\ Goes(t, X_OrderFailed(loc[t]))
    /\ UNCHANGED <<clock, connVars, xferReturned, pureVars>>

\* ------------------------------------------------- BinanceAdapter
\* fetch_funding_balance up to its await (lines 147-154)
A_fetch_funding_balance(t) ==
    /\ impl = Adapter
    /\ pc[t] = "idle"
    /\ Goes(t, [pc |-> "balance_wait",
                l |-> [NewCall("fetch_funding_balance", "", "") EXCEPT !.nBal = 1]])
    /\ UNCHANGED <<clock, connVars, xferReturned, pureVars>>

\* lines 156-165
A_fetch_funding_balance_ok(t) ==
    /\ impl = Adapter
    /\ pc[t] = "balance_wait"
    /\ \E response \in BalanceResponses :
         Goes(t, Returns([loc[t] EXCEPT !.ret = "balances",
                                        !.bal = ParseBalances(response)]))
    /\ UNCHANGED <<clock, connVars, xferReturned, pureVars>>

\* lines 166-168: `return {}`
A_fetch_funding_balance_fail(t) ==
    /\ impl = Adapter
    /\ pc[t] = "balance_wait"
    /\ Goes(t, Returns([loc[t] EXCEPT !.ret = "balances",
                                      !.err = "request:get-alpha-asset",
                                      !.bal = EmptyMap]))
    /\ UNCHANGED <<clock, connVars, xferReturned, pureVars>>

\* get_alpha_exchange_info has its info (lines 225, 235); inside a transfer
\* _build_alpha_order goes on to the ticker request (lines 252-265)
A_AfterInfo(l, info) ==
    IF l.op = "get_alpha_exchange_info"
    THEN Returns([l EXCEPT !.ret = "info", !.now = 0, !.issuedAt = 0])
    ELSE LET symbol_info == NextMatching(info.symbols, l.asset)
         IN  IF symbol_info = NoSymbol
             THEN Returns(ReturnFalse([l EXCEPT !.now = 0, !.issuedAt = 0],
                                      "ValueError:symbol"))
             ELSE [pc |-> "ticker_wait",
                   l |-> [l EXCEPT !.sym = symbol_info, !.nTicker = 1, !.now = 0,
                                   !.issuedAt = 0]]

\* get_alpha_exchange_info up to its await (lines 222-233)
A_LookupStart(l, now) ==
    IF CatalogFresh(alpha_exchange_cache, now)
    THEN A_AfterInfo(l, alpha_exchange_cache[2])
    ELSE [pc |-> "catalog_wait",
          l |-> [l EXCEPT !.now = now, !.issuedAt = clock, !.nCat = 1]]

A_begin(t, op, asset, amount) ==
    /\ impl = Adapter
    /\ pc[t] = "idle"
    /\ Goes(t, A_LookupStart([NewCall(op, asset, SideOf(op)) EXCEPT !.amount = amount],
                             clock))
    /\ UNCHANGED <<clock, connVars, xferReturned, pureVars>>

\* lines 170-175, 249-251
A_transfer_to_funding(t) ==
    \E asset \in TransferAssets, amount \in TransferAmounts :
        A_begin(t, "transfer_to_funding", asset, amount)

\* lines 195-200, 249-251
A_transfer_to_spot(t) ==
    \E asset \in TransferAssets, amount \in TransferAmounts :
        A_begin(t, "transfer_to_spot", asset, amount)

\* a caller looks the catalog up directly (lines 220-233)
A_get_alpha_exchange_info(t) ==
    A_begin(t, "get_alpha_exchange_info", "", Rat(0, 1))

\* the get-exchange-info request answers (lines 231-235)
A_catalog_ok(t) ==
    /\ impl = Adapter
    /\ pc[t] = "catalog_wait"
    /\ \E info \in ExchangeInfos :
         /\ alpha_exchange_cache' = <<loc[t].now, info>>
         /\ replaced' = [replaced EXCEPT !.cat = <<loc[t].now, info>>,
                                         !.catIssued = loc[t].issuedAt]
         /\ Goes(t, A_AfterInfo(loc[t], info))
    /\ UNCHANGED <<clock, impl, enable_savings, funding_balance_cache, balance_cache,
                   xferReturned, pureVars>>

\* the get-exchange-info request raises out of get_alpha_exchange_info
\* (lines 231-233); a transfer catches it and returns False (lines 191-193)
A_CatalogFailed(l) ==
    IF l.op = "get_alpha_exchange_info"
    THEN Returns(Raise(l, "request:get-exchange-info"))
    ELSE Returns(ReturnFalse(l, "request:get-exchange-info"))

A_catalog_fail(t) ==
    /\ impl = Adapter
    /\ pc[t] = "catalog_wait"
    /\ Goes(t, A_CatalogFailed(loc[t]))
    /\ UNCHANGED <<clock, connVars, xferReturned, pureVars>>

\* _build_alpha_order from the price on, and the order request (lines 265-277, 177-189)
A_AfterPrice(l, price_value) ==
    IF PriceRejected(price_value)
    THEN Returns(ReturnFalse([l EXCEPT !.price = price_value], "ValueError:price"))
    ELSE IF price_value = 0    \* `amount / price_value` raises on a zero divisor
    THEN Returns(ReturnFalse([l EXCEPT !.price = price_value], "ZeroDivisionError"))
    ELSE LET params == IF l.op = "transfer_to_funding"
                       THEN funding_params(l.asset, l.amount, l.sym, Rat(price_value, 1))
                       ELSE adapter_spot_params(l.asset, l.amount, l.sym,
                                                Rat(price_value, 1))
         IN  [pc |-> "order_wait",
              l |-> [l EXCEPT !.price = price_value, !.params = params, !.nOrder = 1]]

A_ticker_ok(t) ==
    /\ impl = Adapter
    /\ pc[t] = "ticker_wait"
    /\ \E ticker \in TickerResponses :
         Goes(t, A_AfterPrice(loc[t], TickerPrice(ticker)))
    /\ UNCHANGED <<clock, connVars, xferReturned, pureVars>>

\* the ticker-price request raises (lines 244-246, 191-193)
A_ticker_fail(t) ==
    /\ impl = Adapter
    /\ pc[t] = "ticker_wait"
    /\ Goes(t, Returns(ReturnFalse(loc[t], "request:ticker-price")))
    /\ UNCHANGED <<clock, connVars, xferReturned, pureVars>>

\* the order/place request answers: `return True` (lines 187-190, 212-215)
A_order_ok(t) ==
    /\ impl = Adapter
    /\ pc[t] = "order_wait"
    /\ Goes(t, Returns([loc[t] EXCEPT !.ret = "True"]))
    /\ UNCHANGED <<clock, connVars, xferReturned, pureVars>>

\* the order/place request raises: `return False` (lines 191-193, 216-218)
A_order_fail(t) ==
    /\ impl = Adapter
    /\ pc[t] = "order_wait"
    /\ Goes(t, Returns(ReturnFalse(loc[t], "request:order/place")))
    /\ UNCHANGED <<clock, connVars, xferReturned, pureVars>>

\* ------------------------------------------------------- specifications
\* a task calls an operation of the connector
Call(t) ==
    \/ X_fetch_funding_balance(t)
    \/ X_transfer_to_savings(t)
    \/ X_transfer_to_spot(t)
    \/ A_fetch_funding_balance(t)
    \/ A_transfer_to_funding(t)
    \/ A_transfer_to_spot(t)
    \/ A_get_alpha_exchange_info(t)

\* the gateway answers the request a task awaits, or raises
Resume(t) ==
    \/ X_fetch_funding_balance_ok(t)
    \/ X_fetch_funding_balance_fail(t)
    \/ X_catalog_ok(t)
    \/ X_catalog_fail(t)
    \/ X_ticker_ok(t)
    \/ X_ticker_fail(t)
    \/ X_order_ok(t)
    \/ X_order_fail(t)
    \/ A_fetch_funding_balance_ok(t)
    \/ A_fetch_funding_balance_fail(t)
    \/ A_catalog_ok(t)
    \/ A_catalog_fail(t)
    \/ A_ticker_ok(t)
    \/ A_ticker_fail(t)
    \/ A_order_ok(t)
    \/ A_order_fail(t)

\* callers issue operations concurrently
Next ==
    \/ Tick /\ UNCHANGED seqVars
    \/ \E t \in Tasks : Call(t) /\ UNCHANGED seqVars
    \/ \E t \in Tasks : Resume(t) /\ UNCHANGED seqVars

Spec == Init /\ [][Next]_vars

\* ---- one caller, one call after the other, with the history of its calls
Shift(entry) == [prev |-> lk.last, last |-> entry]

\* a call starts; when it did its catalog lookup from the cache, the lookup
\* is over: it started now and issued no request
ObserveCall(t) ==
    /\ lk' = IF /\ loc'[t].op \in TransferOps \cup {"get_alpha_exchange_info"}
                /\ loc'[t].err # "RuntimeError"
                /\ pc'[t] # "catalog_wait"
             THEN Shift(<<clock, 0, TRUE>>)
             ELSE lk
    /\ okBal' = okBal

\* a request is answered; a catalog lookup that awaited it is over, and a
\* balance request that succeeded gave the balances now known
ObserveResume(t) ==
    /\ lk' = IF pc[t] = "catalog_wait"
             THEN Shift(<<loc[t].now, loc[t].nCat,
                          loc'[t].err # "request:get-exchange-info">>)
             ELSE lk
    /\ okBal' = IF pc[t] = "balance_wait" /\ loc'[t].err = ""
                THEN <<loc'[t].bal>>
                ELSE okBal

NextSeq ==
    \/ Tick /\ UNCHANGED seqVars
    \/ \E t \in SeqTasks : Call(t) /\ ObserveCall(t)
    \/ \E t \in SeqTasks : Resume(t) /\ ObserveResume(t)

SpecSeq == Init /\ [][NextSeq]_vars

\* ---- instrument resolution as a function of the catalog and the quote asset
CatalogInstruments == {A1, A2, A3, A4, A5, A6}
ResolveQuotes == {"USDT", "BTC"}
Catalogs == UNION { [1..n -> CatalogInstruments] : n \in 0..MaxCatalogLen }

InitResolve ==
    /\ InitConn
    /\ impl = Exchange
    /\ enable_savings = TRUE
    /\ r_symbols \in Catalogs
    /\ r_quote \in ResolveQuotes
    /\ r_done = FALSE
    /\ r_exchange = NoSymbol
    /\ r_adapter = NoSymbol
    /\ o_in = OrderInput("", Rat(0, 1), NoSymbol, Rat(1, 1))
    /\ o_done = FALSE
    /\ o_out = NoOrders

Resolve ==
    /\ ~r_done
    /\ r_done' = TRUE
    /\ r_exchange' = ResolveSymbol(r_symbols, r_quote)
    /\ r_adapter' = NextMatching(r_symbols, r_quote)
    /\ UNCHANGED <<clock, connVars, pc, loc, xferReturned, seqVars, r_symbols, r_quote,
                   orderVars>>

NextResolve == Resolve

SpecResolve == InitResolve /\ [][NextResolve]_vars

\* ---- the order parameters as a function of the transfer's inputs
\* a precision key of the instrument: <<>> when omitted, else <<digits>>
OrderPrecisions == {<<>>, <<0>>, <<2>>, <<4>>, <<8>>}

OrderInstrument(quantityPrecision, pricePrecision) ==
    LET base == Instrument("ALPHA_2USDT", "ALPHA_2", "USDT", "TRADING")
        keys == DOMAIN base
                \cup (IF quantityPrecision # <<>> THEN {"quantityPrecision"} ELSE {})
                \cup (IF pricePrecision # <<>> THEN {"pricePrecision"} ELSE {})
    IN  [k \in keys |->
            IF k = "quantityPrecision" THEN quantityPrecision[1]
            ELSE IF k = "pricePrecision" THEN pricePrecision[1]
            ELSE base[k]]

OrderAmounts ==
    { Rat(100, 1), Rat(1, 1), Rat(1, 3), Rat(7, 2), Rat(1, 1000000),
      Rat(100000000, 1), Rat(-100, 1) }

\* prices that passed `price_value <= 0`
OrderPrices == { Rat(5, 2), Rat(2, 1), Rat(3, 1), Rat(1, 8) }

OrderInputs ==
    { OrderInput("USDT", amount, OrderInstrument(q, p), price_value) :
        amount \in OrderAmounts, price_value \in OrderPrices,
        q \in OrderPrecisions, p \in OrderPrecisions }

InitOrder ==
    /\ InitConn
    /\ impl = Exchange
    /\ enable_savings = TRUE
    /\ r_symbols = <<>>
    /\ r_quote = ""
    /\ r_done = FALSE
    /\ r_exchange = NoSymbol
    /\ r_adapter = NoSymbol
    /\ o_in \in OrderInputs
    /\ o_done = FALSE
    /\ o_out = NoOrders

\* the four transfers build their order parameters from the same inputs
BuildOrders ==
    /\ ~o_done
    /\ o_done' = TRUE
    /\ o_out' =
         [savings |-> savings_params(o_in.asset, o_in.amount,
                                     o_in.symbol_info, o_in.price_value),
          spot |-> spot_params(o_in.asset, o_in.amount,
                               o_in.symbol_info, o_in.price_value),
          funding |-> funding_params(o_in.asset, o_in.amount,
                                     o_in.symbol_info, o_in.price_value),
          adapter_spot |-> adapter_spot_params(o_in.asset, o_in.amount,
                                               o_in.symbol_info, o_in.price_value)]
    /\ UNCHANGED <<clock, connVars, pc, loc, xferReturned, seqVars, resolveVars, o_in>>

NextOrder == BuildOrders

SpecOrder == InitOrder /\ [][NextOrder]_vars

\* ================================================================ claims
\* C1: after a BinanceExchange transfer returns successfully the balance
\* cache is {timestamp: 0, data: {}}, and the first fetch_funding_balance
\* started after that return issues a balance request.
C1_TransferForcesRefetch ==
    [][\A t \in Tasks :
         /\ X_order_ok(t) => funding_balance_cache' = ClearedBalanceCache
         /\ (xferReturned /\ X_fetch_funding_balance(t)) => pc'[t] = "balance_wait"]_vars

\* C2 (as stated): any two sequential catalog lookups less than 30s apart
\* issue exactly one get-exchange-info request in total, and two lookups
\* more than 30s apart issue two.
LookupPair == lk.prev # <<>> /\ lk.last # <<>>
LookupGap == lk.last[1] - lk.prev[1]
LookupRequests == lk.prev[2] + lk.last[2]

C2_AnyTwoLookups ==
    LookupPair =>
        /\ LookupGap < 30 => LookupRequests = 1
        /\ LookupGap > 30 => LookupRequests = 2

\* C2 (amended): two sequential lookups of which the first found the cache
\* empty or expired and had its request answered issue one request in total
\* when they start less than 30s apart, and two when more than 30s apart.
C2_TwoLookupsFirstFetched ==
    (LookupPair /\ lk.prev[2] = 1 /\ lk.prev[3]) =>
        /\ LookupGap < 30 => LookupRequests = 1
        /\ LookupGap > 30 => LookupRequests = 2

\* the second of two lookups 20s apart was served from the first one's fetch
C2_Witness ==
    /\ LookupPair
    /\ lk.prev[2] = 1 /\ lk.prev[3]
    /\ LookupGap > 0 /\ LookupGap < 30
    /\ LookupRequests = 1

\* C3: once a fetch_funding_balance request has succeeded with V, a later
\* fetch_funding_balance whose request fails returns V without raising and
\* leaves the balance cache unchanged.
C3_FailedFetchReturnsPrevious ==
    [][\A t \in SeqTasks :
         (/\ pc[t] = "balance_wait"
          /\ loc'[t].err = "request:get-alpha-asset"
          /\ okBal # <<>>)
         => /\ loc'[t].ret = "balances"
            /\ loc'[t].bal = okBal[1]
            /\ funding_balance_cache' = funding_balance_cache]_vars

\* C4: with the liquidity feature disabled every transfer call fails at once
\* with an error and issues no request.
C4_DisabledTransferFailsFast ==
    ~enable_savings =>
        \A t \in Tasks :
            loc[t].op \in TransferOps =>
                /\ pc[t] = "idle"
                /\ loc[t].ret = "raise"
                /\ loc[t].nCat = 0 /\ loc[t].nTicker = 0 /\ loc[t].nOrder = 0

\* C5: a call has issued an order-placement request only if it resolved a
\* TRADING instrument of the requested quote asset and then fetched a price
\* above 0 for it; a call that failed before the order issued no order.
C5_OrderOnlyAfterInstrumentAndPrice ==
    \A t \in Tasks :
        /\ loc[t].nOrder > 0 =>
              /\ loc[t].op \in TransferOps
              /\ loc[t].sym.quoteAsset = loc[t].asset
              /\ loc[t].sym.status = "TRADING"
              /\ loc[t].nTicker = 1
              /\ loc[t].price > 0
        /\ loc[t].err \in {"request:get-exchange-info", "ValueError:symbol",
                           "request:ticker-price", "ValueError:price"} =>
              /\ pc[t] = "idle"
              /\ loc[t].nOrder = 0

\* a call fetched the catalog, resolved the instrument, got a price and
\* awaits its order
C5_Witness ==
    \E t \in Tasks :
        /\ pc[t] = "order_wait"
        /\ loc[t].nCat = 1 /\ loc[t].nTicker = 1 /\ loc[t].nOrder = 1
        /\ loc[t].price = 2

\* C6: a transfer call issues at most one order-placement request; when the
\* placement fails the call is over.
C6_AtMostOneOrderRequest ==
    \A t \in Tasks :
        /\ loc[t].nOrder <= 1
        /\ loc[t].err = "request:order/place" => pc[t] = "idle" /\ loc[t].nOrder = 1

\* a transfer whose one order placement was rejected has ended
C6_Witness ==
    \E t \in Tasks :
        /\ pc[t] = "idle"
        /\ loc[t].err = "request:order/place"
        /\ loc[t].nOrder = 1

\* C7: a transfer in which order building or order submission failed ends
\* by raising the error to its caller.
C7_TransferErrorsPropagate ==
    \A t \in Tasks :
        (loc[t].op \in TransferOps /\ loc[t].err # "") => loc[t].ret = "raise"

\* C8: resolution returns the instrument at the smallest index whose
\* quoteAsset is q and whose status is TRADING, and fails exactly when the
\* catalog holds none.
Hits ==
    { i \in 1..Len(r_symbols) :
        r_symbols[i].quoteAsset = r_quote /\ r_symbols[i].status = "TRADING" }

C8_FirstTradingMatch ==
    r_done =>
        \A out \in {r_exchange, r_adapter} :
            IF Hits = {}
            THEN out = NoSymbol
            ELSE \E i \in Hits : (\A j \in Hits : i <= j) /\ out = r_symbols[i]

\* several candidates, the first of them behind a non-matching instrument
C8_Witness ==
    /\ r_done
    /\ Cardinality(Hits) >= 2
    /\ 1 \notin Hits
    /\ \E i, j \in Hits : r_symbols[i] # r_symbols[j]
    /\ r_exchange # NoSymbol

\* C9: when the get-exchange-info request of a catalog lookup fails, the
\* error leaves the lookup, no instrument is resolved from the cached
\* catalog (no ticker request follows) and the catalog cache is unchanged.
C9_CatalogFailurePropagates ==
    [][\A t \in Observed :
         (X_catalog_fail(t) \/ A_catalog_fail(t)) =>
             /\ pc'[t] = "idle"
             /\ loc'[t].err = "request:get-exchange-info"
             /\ loc'[t].ret = IF impl = Adapter /\ loc[t].op \in TransferOps
                              THEN "False" ELSE "raise"
             /\ loc'[t].sym = NoSymbol
             /\ loc'[t].nTicker = 0
             /\ alpha_exchange_cache' = alpha_exchange_cache]_vars

\* a lookup that started with an expired catalog in the cache has failed
C9_Witness ==
    \E t \in Tasks :
        /\ pc[t] = "idle"
        /\ loc[t].err = "request:get-exchange-info"
        /\ alpha_exchange_cache # <<>>
        /\ loc[t].now - alpha_exchange_cache[1] >= 30
        /\ loc[t].sym = NoSymbol

\* C10: the balance cache and every balance map returned hold only amounts
\* above 0.
C10_BalancesPositive ==
    /\ \A k \in DOMAIN funding_balance_cache.data : funding_balance_cache.data[k] > 0
    /\ \A t \in Tasks : \A k \in DOMAIN loc[t].bal : loc[t].bal[k] > 0

\* the response with a negative, a zero, a code-less and an amount-less
\* item was parsed: only USDT 5 is returned
C10_Witness ==
    \E t \in Tasks :
        /\ loc[t].ret = "balances"
        /\ loc[t].nBal = 1
        /\ DOMAIN loc[t].bal = {"USDT"}
        /\ loc[t].bal["USDT"] = 5

\* C11: the order carries quantity = amount / price with exactly
\* quantityPrecision fraction digits and the price with exactly
\* pricePrecision fraction digits (8 when the instrument omits the key), in
\* plain decimal notation; amount 100 at price 2.5 with precisions 4 and 2
\* gives "40.0000" and "2.50".
PlainChars == {"0", "1", "2", "3", "4", "5", "6", "7", "8", "9", ".", "-"}

\* plain fixed-point text with exactly p digits after the point
FixedText(text, p) ==
    LET n == Len(text)
        first == IF n > 0 /\ text[1] = "-" THEN 2 ELSE 1
        point == n - p
    IN  /\ \A i \in 1..n : text[i] \in PlainChars
        /\ \A i \in first..n : text[i] # "-"
        /\ IF p = 0
           THEN /\ n >= first
                /\ \A i \in 1..n : text[i] # "."
           ELSE /\ point > first
                /\ \A i \in 1..n : (text[i] = ".") <=> (i = point)

\* the number the digits of the text spell, sign and point left out
RECURSIVE TextUnits(_)
TextUnits(text) ==
    IF text = <<>> THEN 0
    ELSE LET n == Len(text)
             front == TextUnits(SubSeq(text, 1, n - 1))
         IN  IF text[n] \in {".", "-"} THEN front
             ELSE 10 * front + (CHOOSE k \in 0..9 : DigitChars[k + 1] = text[n])

RECURSIVE Pow10(_)
Pow10(p) == IF p = 0 THEN 1 ELSE 10 * Pow10(p - 1)

\* the text is the value rounded to p places: off by at most half a unit of
\* the last place (for the magnitudes that fit the integers)
NearestText(text, value, p) ==
    LET a == IF value.num < 0 THEN -value.num ELSE value.num
        fits == a <= 10000000 \div Pow10(p) /\ value.den <= 10000000
        diff == TextUnits(text) * value.den - a * Pow10(p)
    IN  fits => (2 * diff <= value.den /\ -2 * diff <= value.den)

ExpectedPrecision(symbol_info, key) ==
    IF key \in DOMAIN symbol_info THEN symbol_info[key] ELSE 8

C11_OrderTextPrecision ==
    o_done =>
        \A name \in DOMAIN o_out :
            LET order == o_out[name]
                qp == ExpectedPrecision(o_in.symbol_info, "quantityPrecision")
                pp == ExpectedPrecision(o_in.symbol_info, "pricePrecision")
                quantity_value == Rat(o_in.amount.num * o_in.price_value.den,
                                      o_in.amount.den * o_in.price_value.num)
            IN  /\ FixedText(order.quantity, qp)
                /\ FixedText(order.price, pp)
                /\ NearestText(order.quantity, quantity_value, qp)
                /\ NearestText(order.price, o_in.price_value, pp)
                /\ (/\ o_in.amount = Rat(100, 1)
                    /\ o_in.price_value = Rat(5, 2)
                    /\ qp = 4 /\ pp = 2)
                   => /\ order.quantity = <<"4", "0", ".", "0", "0", "0", "0">>
                      /\ order.price = <<"2", ".", "5", "0">>

\* the example order was built, and so was one for an instrument that
\* omits both precisions
C11_Witness ==
    /\ o_done
    /\ o_in.amount = Rat(100, 1)
    /\ o_in.price_value = Rat(5, 2)
    /\ "quantityPrecision" \in DOMAIN o_in.symbol_info
    /\ o_in.symbol_info.quantityPrecision = 4
    /\ "pricePrecision" \in DOMAIN o_in.symbol_info
    /\ o_in.symbol_info.pricePrecision = 2
    /\ o_out.savings.quantity = <<"4", "0", ".", "0", "0", "0", "0">>
    /\ o_out.savings.price = <<"2", ".", "5", "0">>

\* C12: within a transfer call the requests go catalog (only when the
\* catalog cache is expired), ticker price, order placement; the balance
\* cache is cleared only when an order placement has returned successfully;
\* and a call whose order placement succeeded does not fail.
C12_TransferSequence ==
    [][/\ \A t \in Tasks :
            /\ loc'[t].nOrder > 0 => loc'[t].nTicker = 1
            /\ loc'[t].nTicker > 0 => loc'[t].sym # NoSymbol /\ pc'[t] # "catalog_wait"
            /\ pc'[t] = "ticker_wait" => loc'[t].nOrder = 0
            /\ (/\ pc[t] = "idle"
                /\ pc'[t] # "idle" \/ loc'[t] # loc[t]
                /\ loc'[t].op \in TransferOps) =>
                  LET expired == \/ alpha_exchange_cache = <<>>
                                 \/ clock - alpha_exchange_cache[1] >= 30
                  IN  /\ pc'[t] = "catalog_wait" => expired /\ loc'[t].nCat = 1
                      /\ loc'[t].nTicker > 0 => ~expired /\ loc'[t].nCat = 0
       /\ (\/ funding_balance_cache' # funding_balance_cache
              /\ funding_balance_cache' = [timestamp |-> 0, data |-> EmptyMap]
           \/ balance_cache' # balance_cache)
          => \E t \in Tasks :
                /\ pc[t] = "order_wait" /\ pc'[t] = "idle"
                /\ loc[t].nOrder = 1
                /\ t \in Observed => loc'[t].ret = "result"
       /\ \A t \in Observed :
            (X_order_ok(t) \/ A_order_ok(t))
            => loc'[t].ret \in {"result", "True"} /\ loc'[t].err = ""
      ]_vars

\* a transfer went through catalog fetch, ticker price and order placement,
\* returned its result and left the balance cache cleared
C12_Witness ==
    \E t \in Tasks :
        /\ impl = Exchange
        /\ pc[t] = "idle"
        /\ loc[t].ret = "result"
        /\ loc[t].nCat = 1 /\ loc[t].nTicker = 1 /\ loc[t].nOrder = 1
        /\ funding_balance_cache = [timestamp |-> 0, data |-> EmptyMap]
        /\ balance_cache.data = "None"

\* C13: the steps of a transfer call other than the successful return of
\* its order placement leave the balance caches as they are, so a transfer
\* that fails has not touched them.
C13_FailedTransferKeepsBalanceCache ==
    [][\A t \in Tasks :
         (/\ pc[t] # pc'[t] \/ loc[t] # loc'[t]
          /\ IF pc[t] = "idle" THEN loc'[t].op \in TransferOps
                               ELSE loc[t].op \in TransferOps
          /\ ~(/\ pc[t] = "order_wait" /\ pc'[t] = "idle"
               /\ t \in Observed => loc'[t].ret \in {"result", "True"}))
         => /\ funding_balance_cache' = funding_balance_cache
            /\ balance_cache' = balance_cache]_vars

\* a transfer's order placement was rejected while the balance cache held
\* fetched balances, and it still holds them
C13_Witness ==
    \E t \in Tasks :
        /\ impl = Exchange
        /\ pc[t] = "idle"
        /\ loc[t].err = "request:order/place"
        /\ funding_balance_cache.timestamp > 0
        /\ funding_balance_cache.data # EmptyMap

\* C14: in every interleaving each cache holds a timestamp and a value
\* stored together by one replacement: the balance cache is the pair of one
\* completed fetch or the cleared pair {0, {}}, the catalog cache is None
\* or the pair of one completed fetch; a timestamp is never found with the
\* value of another replacement.
C14_CachePairsWhole ==
    /\ funding_balance_cache = replaced.bal
    /\ alpha_exchange_cache = replaced.cat
    /\ \/ funding_balance_cache = [timestamp |-> 0, data |-> EmptyMap]
       \/ /\ funding_balance_cache.timestamp >= StartTime
          /\ \E result \in BalanceResponses :
                funding_balance_cache.data = ParseBalances(result)
    /\ \/ alpha_exchange_cache = <<>>
       \/ /\ Len(alpha_exchange_cache) = 2
          /\ alpha_exchange_cache[1] >= StartTime
          /\ alpha_exchange_cache[2] \in ExchangeInfos

\* a balance refresh and a catalog refresh are in flight while both caches
\* hold the pair of an earlier fetch
C14_Witness ==
    /\ \E t \in Tasks :
          /\ pc[t] = "balance_wait"
          /\ funding_balance_cache.timestamp > 0
          /\ loc[t].now > funding_balance_cache.timestamp
    /\ \E u \in Tasks :
          /\ pc[u] = "catalog_wait"
          /\ alpha_exchange_cache # <<>>
          /\ loc[u].now > alpha_exchange_cache[1]

\* C15 (as stated): a fetch_funding_balance call that finds the balance
\* cache fresh returns the cached map, issues no request and leaves the
\* cache alone; one that finds it not fresh issues exactly one balance
\* request.
FetchStarts(t) == X_fetch_funding_balance(t) \/ A_fetch_funding_balance(t)

FoundFresh == clock - funding_balance_cache.timestamp < cache_ttl

ServedFromCache(t) ==
    /\ pc'[t] = "idle"
    /\ loc'[t].ret = "balances"
    /\ loc'[t].bal = funding_balance_cache.data
    /\ loc'[t].nBal = 0
    /\ funding_balance_cache' = funding_balance_cache

OneBalanceRequest(t) ==
    /\ pc'[t] = "balance_wait"
    /\ loc'[t].nBal = 1

C15_FreshOrOneRequest ==
    [][/\ \A t \in Observed :
            FetchStarts(t) => IF FoundFresh THEN ServedFromCache(t)
                                            ELSE OneBalanceRequest(t)
       /\ \A t \in Tasks : loc'[t].nBal <= 1]_vars

\* C15 (amended): the same, for a connector whose liquidity feature is
\* enabled.
C15_EnabledFreshOrOneRequest ==
    [][/\ \A t \in Observed :
            (enable_savings /\ FetchStarts(t))
            => IF FoundFresh THEN ServedFromCache(t) ELSE OneBalanceRequest(t)
       /\ \A t \in Tasks : loc'[t].nBal <= 1]_vars

\* a call was served the fetched balances from the fresh cache
C15_Witness ==
    \E t \in Observed :
        /\ enable_savings
        /\ pc[t] = "idle"
        /\ loc[t].op = "fetch_funding_balance"
        /\ loc[t].ret = "balances"
        /\ loc[t].nBal = 0
        /\ loc[t].bal # EmptyMap
        /\ loc[t].bal = funding_balance_cache.data
        /\ clock - funding_balance_cache.timestamp < cache_ttl

\* C16: for the same asset, amount, instrument and price the order
\* parameters of the spot-to-liquidity transfer and of the liquidity-to-spot
\* transfer are equal except for side, BUY for the former and SELL for the
\* latter, and a step of either has the cache effects of its kind of step,
\* whatever the direction.
OtherDirection(l) ==
    LET price_value == Rat(l.price, 1)
    IN  IF impl = Exchange
        THEN IF l.op = "transfer_to_spot"
             THEN savings_params(l.asset, l.amount, l.sym, price_value)
             ELSE spot_params(l.asset, l.amount, l.sym, price_value)
        ELSE IF l.op = "transfer_to_spot"
             THEN funding_params(l.asset, l.amount, l.sym, price_value)
             ELSE adapter_spot_params(l.asset, l.amount, l.sym, price_value)

BalanceCachesKept ==
    /\ funding_balance_cache' = funding_balance_cache
    /\ balance_cache' = balance_cache

C16_DirectionsDifferOnlyInSide ==
    [][/\ \A t \in Tasks :
            pc'[t] = "order_wait" =>
                LET own == loc'[t].params
                    other == OtherDirection(loc'[t])
                IN  /\ own.side = IF loc'[t].op = "transfer_to_spot" THEN "SELL" ELSE "BUY"
                    /\ other.side = IF own.side = "SELL" THEN "BUY" ELSE "SELL"
                    /\ own = [other EXCEPT !.side = own.side]
                    /\ own.quoteAsset = loc'[t].asset
                    /\ own.baseAsset = loc'[t].sym.baseAsset
                    /\ own.recvWindow = 5000
       /\ \A t \in Observed :
            (pc[t] # pc'[t] /\ loc'[t].op \in TransferOps) =>
                /\ (pc[t] \in {"idle", "ticker_wait"}) =>
                      BalanceCachesKept /\ alpha_exchange_cache' = alpha_exchange_cache
                /\ pc[t] = "catalog_wait" =>
                      /\ BalanceCachesKept
                      /\ IF loc'[t].err = "request:get-exchange-info"
                         THEN alpha_exchange_cache' = alpha_exchange_cache
                         ELSE alpha_exchange_cache'[1] = loc[t].now
                /\ pc[t] = "order_wait" =>
                      /\ alpha_exchange_cache' = alpha_exchange_cache
                      /\ IF loc'[t].err = "" /\ impl = Exchange
                         THEN /\ funding_balance_cache' = [timestamp |-> 0, data |-> EmptyMap]
                              /\ balance_cache' = [timestamp |-> 0, data |-> "None"]
                         ELSE BalanceCachesKept
      ]_vars

\* a BUY transfer has returned and a SELL transfer for the same asset,
\* amount, instrument and price awaits its order: "50.0000" at "2.00" both
C16_Witness ==
    \E t \in Observed, u \in Tasks :
        /\ loc[t].op \in {"transfer_to_savings", "transfer_to_funding"}
        /\ loc[t].ret \in {"result", "True"}
        /\ loc[t].params.side = "BUY"
        /\ loc[t].params.quantity = <<"5", "0", ".", "0", "0", "0", "0">>
        /\ loc[t].params.price = <<"2", ".", "0", "0">>
        /\ pc[u] = "order_wait"
        /\ loc[u].op = "transfer_to_spot"
        /\ loc[u].params = [loc[t].params EXCEPT !.side = "SELL"]

\* C17: once a fetch_funding_balance and a transfer that succeeded while
\* the balance request was in flight have both completed, the balance cache
\* holds no fresh entry requested before the transfer succeeded: when a
\* transfer has returned its result, no fetch_funding_balance has started
\* since and none is in flight, the balance cache is not fresh.
C17_NoStaleBalanceAfterTransfer ==
    (xferReturned /\ \A t \in Tasks : pc[t] # "balance_wait")
    => ~(clock - funding_balance_cache.timestamp < cache_ttl)

\* C18: the timestamp stored in the catalog cache is never later than the
\* time at which the request that produced the stored catalog was issued,
\* and a lookup served from the cache uses a catalog requested less than
\* 30s before it.
C18_CatalogTimestampNotLater ==
    [][/\ alpha_exchange_cache' # <<>> =>
            /\ alpha_exchange_cache'[1] <= replaced'.catIssued
            /\ replaced'.catIssued <= clock'
       /\ \A t \in Observed :
            (/\ pc[t] = "idle"
             /\ pc'[t] # "idle" \/ loc'[t] # loc[t]
             /\ loc'[t].op \in TransferOps \cup {"get_alpha_exchange_info"}
             /\ loc'[t].err # "RuntimeError"
             /\ loc'[t].nCat = 0)
            => /\ alpha_exchange_cache # <<>>
               /\ clock - replaced.catIssued < 30]_vars

\* the catalog of a later request is stored while an earlier request is
\* still in flight
C18_Witness ==
    \E u \in Tasks :
        /\ pc[u] = "catalog_wait"
        /\ alpha_exchange_cache # <<>>
        /\ loc[u].issuedAt < alpha_exchange_cache[1]
        /\ replaced.catIssued = alpha_exchange_cache[1]

====
